---- MODULE Spec2Model ----
(***************************************************************************)
(* Model of apple-codesign/src/yubikey.rs: the PIV smartcard signing       *)
(* backend.  A YubiKey object and the CertificateSigner objects derived    *)
(* from it share one device handle behind a mutex; sign() runs the         *)
(* authentication retry loop attempt_authenticated_operation.              *)
(*                                                                         *)
(* And of tugger-apple-codesign/src/main.rs: the command line program, its *)
(* sign and extract commands (specification SpecCli).                      *)
(***************************************************************************)
EXTENDS Integers, Sequences, FiniteSets, TLC

(* ------------------------------ bounds -------------------------------- *)
NumThreads == 2
MaxSigners == 1
MaxOps == 4
\* longest RSA modulus encoding tried, in bytes (513: a 4096-bit key)
MaxModLen == 513
\* --pem-source arguments on one command line, and PEM sections in all of them
MaxPemSources == 2
MaxSections == 4
\* the signing orchestrator: bytes of the binary before the signature, bytes
\* per page, and the largest max_signature_size an identity declares
MaxCodeSize == 6
PageSize == 2
MaxSignatureSize == 4

(* ------------------------- program constants -------------------------- *)
MAX_ATTEMPTS == 3

Threads == 1..NumThreads
\* The YubiKey object is used through &mut self: one thread owns it.
OwnerThread == 1
NoHolder == 0

(* --------------------------- certificates ----------------------------- *)
\* What sign() reads from the on-card certificate: key_algorithm(),
\* rsa_public_key_data().modulus length in bytes, signature_algorithm().
Cert(k, m, s) == [key |-> k, modlen |-> m, sig |-> s]

\* The card under test: the certificate stored in each key slot, one of every
\* kind sign() tells apart.
CardCerts ==
  << Cert("Rsa", 257, "RsaSha256"),
     Cert("Rsa", 129, "RsaSha256"),
     Cert("Rsa", 385, "RsaSha256"),
     Cert("Ed25519", 0, "Ed25519"),
     Cert("EcdsaP256", 0, "EcdsaSha256"),
     Cert("Unknown", 0, "RsaSha256"),
     Cert("Rsa", 257, "Unknown") >>

Slots == 1..Len(CardCerts)
\* slot ids a caller may ask get_certificate_signer for (one is not on the card)
SlotArgs == 1..(Len(CardCerts) + 1)

\* SignatureAlgorithm::digest_algorithm as sign() uses it (None -> "None")
DigestAlgorithmOf(sig) ==
  CASE sig = "RsaSha256" -> "Sha256"
    [] sig = "EcdsaSha256" -> "Sha256"
    [] sig = "EcdsaSha384" -> "Sha384"
    [] OTHER -> "None"

PrepErr(e) == [ok |-> FALSE, err |-> e, algorithm_id |-> "None",
               signature_algorithm |-> "None", digest_len |-> 0, padded |-> FALSE]

DigestSize(d) == IF d = "Sha384" THEN 48 ELSE 32

\* An RSA key of unrecognised length is taken for a 2048-bit one.
AlgorithmIdOfRsaDefault2048(cert) ==
  CASE cert.key = "Rsa" ->
         (CASE cert.modlen = 129 -> "Rsa1024"
            [] OTHER -> "Rsa2048")
    [] cert.key = "Ed25519" -> "Err:UnknownKeyAlgorithm(ed25519)"
    [] cert.key = "EcdsaP256" -> "EccP256"
    [] cert.key = "EcdsaP384" -> "EccP384"
    [] OTHER -> "Err:UnknownKeyAlgorithm(oid)"

\* Ed25519 is taken for an elliptic-curve key the card can use.
AlgorithmIdOfEd25519AsEcc(cert) ==
  CASE cert.key = "Rsa" ->
         (CASE cert.modlen = 129 -> "Rsa1024"
            [] cert.modlen = 257 -> "Rsa2048"
            [] OTHER -> "Err:Other(unable to determine RSA key algorithm)")
    [] cert.key \in {"EcdsaP256", "Ed25519"} -> "EccP256"
    [] cert.key = "EcdsaP384" -> "EccP384"
    [] OTHER -> "Err:UnknownKeyAlgorithm(oid)"

\* match key_algorithm { ... } of sign()
AlgorithmIdOf(cert) ==
  CASE cert.key = "Rsa" ->
         (CASE cert.modlen = 129 -> "Rsa1024"
            [] cert.modlen = 257 -> "Rsa2048"
            [] OTHER -> "Err:Other(unable to determine RSA key algorithm)")
    [] cert.key = "Ed25519" -> "Err:UnknownKeyAlgorithm(ed25519)"
    [] cert.key = "EcdsaP256" -> "EccP256"
    [] cert.key = "EcdsaP384" -> "EccP384"
    [] OTHER -> "Err:UnknownKeyAlgorithm(oid)"

IsErr(a) == a \in { "Err:Other(unable to determine RSA key algorithm)",
                    "Err:UnknownKeyAlgorithm(ed25519)",
                    "Err:UnknownKeyAlgorithm(oid)" }

\* Everything sign() does before it takes the device lock.
SignPrepare(cert) ==
  LET alg == AlgorithmIdOf(cert)
      dig == DigestAlgorithmOf(cert.sig)
  IN  IF IsErr(alg) THEN PrepErr(alg)
      ELSE IF cert.sig = "Unknown" THEN PrepErr("Err:UnknownDigestAlgorithm(certificate)")
      ELSE IF dig = "None" THEN PrepErr("Err:UnknownDigestAlgorithm(signature algorithm)")
      ELSE [ok |-> TRUE, err |-> "None", algorithm_id |-> alg,
            signature_algorithm |-> cert.sig,
            digest_len |-> (CASE alg = "Rsa1024" -> 1024 \div 8
                              [] alg = "Rsa2048" -> 2048 \div 8
                              [] OTHER -> DigestSize(dig)),
            padded |-> (alg \in {"Rsa1024", "Rsa2048"})]

(* ------------------------------ state --------------------------------- *)
VARIABLES
  pc,            \* per thread: position in the current operation
  op,            \* per thread: the operation in progress and its arguments
  attempt,       \* per thread: loop variable of attempt_authenticated_operation
  pinBuf,        \* per thread: contents of the live Zeroizing<Vec<u8>> ("none" when no buffer)
  residue,       \* per thread: TRUE when released memory still holds PIN bytes
  pinCalls,      \* per thread: PIN callback calls made in this invocation
  log,           \* per thread: device/callback events of the current operation, in order
  aaoResult,     \* per thread: return value of attempt_authenticated_operation
  result,        \* per thread: return value of the operation
  opsStarted,    \* operations started so far, over all threads
  holder,        \* the Mutex<RawYubiKey>: thread holding the guard, or NoHolder
  poisoned,      \* the mutex's poison flag
  ykPinCallback, \* YubiKey.pin_callback: NoCallback or the callback set
  signers,       \* CertificateSigner objects created so far
  \* --- the command line program (main.rs) ---
  args,                \* the parsed command line (ArgMatches) and the files it names
  cpc,                 \* position in the command being run
  pemRead,             \* command_sign: --pem-source files read so far
  private_keys,        \* command_sign: PRIVATE KEY sections collected
  public_certificates, \* command_sign: CERTIFICATE sections collected
  machoSigner,         \* command_sign: what has been registered on the MachOSigner
  stdout,              \* what the command has printed to standard output
  outputFile,          \* the file at output_path
  exitResult,          \* the command's return value
  \* --- the signing orchestrator (write_signed_binary) ---
  orch                 \* its step and the sizes and hashes it has computed

ykVars == << pc, op, attempt, pinBuf, residue, pinCalls, log, aaoResult, result,
             opsStarted, holder, poisoned, ykPinCallback, signers >>

cliVars == << args, cpc, pemRead, private_keys, public_certificates,
              machoSigner, stdout, outputFile, exitResult >>

vars == << pc, op, attempt, pinBuf, residue, pinCalls, log, aaoResult, result,
           opsStarted, holder, poisoned, ykPinCallback, signers,
           args, cpc, pemRead, private_keys, public_certificates,
           machoSigner, stdout, outputFile, exitResult, orch >>

\* A PinCallback is a function pointer; what matters of it is what its k-th
\* call within one sign invocation returns: Ok(correct PIN), Ok(wrong PIN)
\* or Err.
PinOutcomes == {"correct", "wrong", "error"}
\* An Err ends the invocation, so what a callback would answer after its
\* first Err is never asked for: such callbacks are taken to keep failing.
PinCallbacks ==
  { cb \in [1..MAX_ATTEMPTS -> PinOutcomes] :
      \A k \in 1..(MAX_ATTEMPTS - 1) : cb[k] = "error" => cb[k + 1] = "error" }
\* Option<PinCallback>::None
NoCallback == << >>

NoOp == [kind |-> "none", slot |-> 0, signer |-> 0]
\* The locals of a sign() call: the signer used and what is handed to
\* piv::sign_data (algorithm_id, and the digest: its length and whether it
\* is PKCS#1-padded).
SignOp(s, slot, prep) ==
  [kind |-> "sign", slot |-> slot, signer |-> s,
   algorithm_id |-> prep.algorithm_id, digest_len |-> prep.digest_len,
   padded |-> prep.padded]
NoResult == [kind |-> "None", err |-> "None", cause |-> "None", sig |-> 0, alg |-> "None"]
OkSig(n, a) == [kind |-> "Ok", err |-> "None", cause |-> "None", sig |-> n, alg |-> a]
OkVal(n) == [kind |-> "Ok", err |-> "None", cause |-> "None", sig |-> n, alg |-> "None"]
Err(e) == [kind |-> "Err", err |-> e, cause |-> "None", sig |-> 0, alg |-> "None"]

\* No call is in progress on any thread and the mutex is free and clean.
Quiescent ==
  /\ pc = [t \in Threads |-> "idle"]
  /\ op = [t \in Threads |-> NoOp]
  /\ attempt = [t \in Threads |-> 0]
  /\ pinBuf = [t \in Threads |-> "none"]
  /\ residue = [t \in Threads |-> FALSE]
  /\ pinCalls = [t \in Threads |-> 0]
  /\ log = [t \in Threads |-> << >>]
  /\ aaoResult = [t \in Threads |-> NoResult]
  /\ result = [t \in Threads |-> NoResult]
  /\ opsStarted = 0
  /\ holder = NoHolder
  /\ poisoned = FALSE

\* MachOSigner::new: nothing registered yet
NewMachOSigner ==
  [signing_key |-> << >>, time_stamp_url |-> "None", chain |-> << >>]

\* The library is used on its own: no command of main.rs is running.
NoCommand ==
  /\ args = [command |-> "none"]
  /\ cpc = "none"
  /\ pemRead = 0
  /\ private_keys = << >>
  /\ public_certificates = << >>
  /\ machoSigner = NewMachOSigner
  /\ stdout = << >>
  /\ outputFile = "untouched"
  /\ exitResult = "None"

\* No binary is being signed.
NoOrchestration == orch = [step |-> "none"]

\* impl From<RawYubiKey> for YubiKey
Init ==
  /\ Quiescent
  /\ ykPinCallback = NoCallback
  /\ signers = << >>
  /\ NoCommand
  /\ NoOrchestration

(* ------------------------------ helpers ------------------------------- *)
Logged(t, e) == [log EXCEPT ![t] = Append(@, e)]

\* Off by one: gives up one attempt too late.
LastAttemptLate(a) == a = MAX_ATTEMPTS + 1

\* Off by one: gives up one attempt too early.
LastAttemptEarly(a) == a = MAX_ATTEMPTS - 1

\* `if attempt == MAX_ATTEMPTS` in the AuthenticationError arm
LastAttempt(a) == a = MAX_ATTEMPTS

\* A lock that does not exclude: the guard is handed out while it is held.
LockOutcomeNoExclusion(h, p) == IF p THEN "poisoned" ELSE "acquired"

\* try_lock(): a held mutex is reported as an error instead of waited for.
LockOutcomeTryLock(h, p) ==
  IF h # NoHolder THEN "busy"
  ELSE IF p THEN "poisoned"
  ELSE "acquired"

\* Mutex::lock() seen from the caller, for holder h and poison flag p: it
\* blocks while another thread holds the guard, and once the mutex is free it
\* returns the guard, or Err(PoisonError) when a holder panicked.
LockOutcome(h, p) ==
  IF h # NoHolder THEN "wait"
  ELSE IF p THEN "poisoned"
  ELSE "acquired"

\* Without a callback the loop goes on to the next attempt instead of giving up.
MatchOpRetriesWithoutPin(o, a, cb) ==
  CASE o = "Ok" -> "return_ok"
    [] o = "AuthenticationError" ->
         (IF LastAttempt(a) THEN "fail_auth"
          ELSE IF cb # NoCallback THEN "resolve"
          ELSE "retry")
    [] OTHER -> "return_err"

\* The Ok arm does not return: the loop signs again while attempts are left.
MatchOpOkContinues(o, a, cb) ==
  CASE o = "Ok" -> (IF LastAttempt(a) THEN "return_ok" ELSE "retry")
    [] o = "AuthenticationError" ->
         (IF LastAttempt(a) THEN "fail_auth"
          ELSE IF cb # NoCallback THEN "resolve"
          ELSE "fail_auth")
    [] OTHER -> "return_err"

\* Every error of sign_data is reported as an authentication failure.
MatchOpMasksError(o, a, cb) ==
  CASE o = "Ok" -> "return_ok"
    [] o = "AuthenticationError" ->
         (IF LastAttempt(a) THEN "fail_auth"
          ELSE IF cb # NoCallback THEN "resolve"
          ELSE "fail_auth")
    [] OTHER -> "fail_auth"

\* The `attempt == MAX_ATTEMPTS` check is missing: a PIN is asked for after
\* the last attempt as well.
MatchOpResolvesOnLast(o, a, cb) ==
  CASE o = "Ok" -> "return_ok"
    [] o = "AuthenticationError" ->
         (IF cb # NoCallback THEN "resolve" ELSE "fail_auth")
    [] OTHER -> "return_err"

\* The arm `match op(yk)` takes for sign_data outcome o on attempt a, with
\* PIN callback cb.
MatchOp(o, a, cb) ==
  CASE o = "Ok" -> "return_ok"
    [] o = "AuthenticationError" ->
         (IF LastAttempt(a) THEN "fail_auth"
          ELSE IF cb # NoCallback THEN "resolve"
          ELSE "fail_auth")
    [] OTHER -> "return_err"

\* An Err of the callback is logged and the loop moves to the next attempt.
PinRetrievedContinues(o) == IF o = "error" THEN "retry" ELSE "verify"

\* `pin_cb().map_err(..)?`: an Err of the callback leaves the function with
\* the mapped error, an Ok goes on to verify_pin.
PinRetrieved(o) == IF o = "error" THEN "return_err" ELSE "verify"

\* A plain Vec<u8>: the memory is released with the PIN bytes still in it.
DropPinNoWipe(buf) == << "none", buf # "none" >>

\* Dropping the Zeroizing<Vec<u8>>: the bytes are wiped before the memory is
\* released.  Gives <<live buffer contents, released memory still holds PIN>>.
DropPin(buf) == << "none", FALSE >>

\* sign() maps every error of attempt_authenticated_operation to
\* X509CertificateError::Other("code sign error: {e:?}").
WrapSignError(r) ==
  IF r.kind = "Ok" THEN r
  ELSE [kind |-> "Err", err |-> "Other(code sign error)", cause |-> r.err,
        sig |-> 0, alg |-> "None"]

\* What piv::sign_data can answer: the card decides, by its PIN policy and
\* state, and the transport may fail.
SignDataOutcomes == {"Ok", "AuthenticationError", "GenericError", "KeyError"}

\* What verify_pin can answer for the PIN handed to it: a wrong PIN is never
\* accepted, a correct one may still fail (blocked card, transport).
VerifyPinOutcomes(pin) == IF pin = "correct" THEN {"Ok", "Err"} ELSE {"Err"}

\* Thread t is between operations and the run may start another one.
Ready(t) == pc[t] \in {"idle", "done"} /\ opsStarted < MaxOps

\* A new operation starts on thread t.
Begin(t, o, nextpc, res) ==
  /\ op' = [op EXCEPT ![t] = o]
  /\ pinCalls' = [pinCalls EXCEPT ![t] = 0]
  /\ attempt' = [attempt EXCEPT ![t] = 0]
  /\ log' = [log EXCEPT ![t] = << >>]
  /\ aaoResult' = [aaoResult EXCEPT ![t] = NoResult]
  /\ result' = [result EXCEPT ![t] = res]
  /\ opsStarted' = opsStarted + 1
  /\ pc' = [pc EXCEPT ![t] = nextpc]

(* --------------------------- YubiKey methods -------------------------- *)
\* set_pin_callback as if signers shared the YubiKey's callback field
\* instead of owning a clone of it.
SetPinCallbackUpdatesSigners(t, cb) ==
  /\ t = OwnerThread
  /\ Ready(t)
  /\ ykPinCallback' = cb
  /\ signers' = [i \in 1..Len(signers) |->
                   [signers[i] EXCEPT !.pin_callback = cb]]
  /\ Begin(t, [kind |-> "set_pin_callback", slot |-> 0, signer |-> 0],
           "done", OkVal(0))
  /\ UNCHANGED << pinBuf, residue, holder, poisoned >>
  /\ UNCHANGED << cliVars, orch >>

\* YubiKey::set_pin_callback
SetPinCallback(t, cb) ==
  /\ t = OwnerThread
  /\ Ready(t)
  /\ ykPinCallback' = cb
  /\ Begin(t, [kind |-> "set_pin_callback", slot |-> 0, signer |-> 0],
           "done", OkVal(0))
  /\ UNCHANGED << pinBuf, residue, holder, poisoned, signers >>
  /\ UNCHANGED << cliVars, orch >>

\* YubiKey::find_certificates called directly
FindCertificatesBegin(t) ==
  /\ t = OwnerThread
  /\ Ready(t)
  /\ Begin(t, [kind |-> "find_certificates", slot |-> 0, signer |-> 0],
           "lock", NoResult)
  /\ UNCHANGED << pinBuf, residue, holder, poisoned, ykPinCallback, signers >>
  /\ UNCHANGED << cliVars, orch >>

\* YubiKey::get_certificate_signer: starts with find_certificates()?
GetCertificateSignerBegin(t, slot_id) ==
  /\ t = OwnerThread
  /\ Ready(t)
  /\ Len(signers) < MaxSigners
  /\ Begin(t, [kind |-> "get_certificate_signer", slot |-> slot_id, signer |-> 0],
           "lock", NoResult)
  /\ UNCHANGED << pinBuf, residue, holder, poisoned, ykPinCallback, signers >>
  /\ UNCHANGED << cliVars, orch >>

(* ------------------------------ the mutex ----------------------------- *)
\* lock() finds the mutex held: the thread is parked until it is released.
LockWait(t) ==
  /\ pc[t] = "lock"
  /\ LockOutcome(holder, poisoned) = "wait"
  /\ pc' = [pc EXCEPT ![t] = "blocked"]
  /\ log' = Logged(t, "wait")
  /\ UNCHANGED << op, attempt, pinBuf, residue, pinCalls, aaoResult, result,
                  opsStarted, holder, poisoned, ykPinCallback, signers >>
  /\ UNCHANGED << cliVars, orch >>

\* lock() returns the guard: YubiKey::inner for the YubiKey methods,
\* self.yk.lock() in sign().
LockAcquire(t) ==
  /\ pc[t] \in {"lock", "blocked"}
  /\ LockOutcome(holder, poisoned) = "acquired"
  /\ holder' = t
  /\ log' = Logged(t, "lock")
  /\ IF op[t].kind = "sign"
     THEN /\ pc' = [pc EXCEPT ![t] = "sign_data"]
          /\ attempt' = [attempt EXCEPT ![t] = 1]
     ELSE /\ pc' = [pc EXCEPT ![t] = "piv_keys"]
          /\ UNCHANGED attempt
  /\ UNCHANGED << op, pinBuf, residue, pinCalls, aaoResult, result, opsStarted,
                  poisoned, ykPinCallback, signers >>
  /\ UNCHANGED << cliVars, orch >>

\* lock() returns Err: map_err drops the PoisonError (and the guard in it)
\* and the operation returns PoisonedLock / Other("poisoned lock").
LockFails(t) ==
  /\ pc[t] \in {"lock", "blocked"}
  /\ LockOutcome(holder, poisoned) \notin {"wait", "acquired"}
  /\ result' = [result EXCEPT ![t] =
                  IF op[t].kind = "sign" THEN Err("Other(poisoned lock)")
                  ELSE Err("PoisonedLock")]
  /\ pc' = [pc EXCEPT ![t] = "done"]
  /\ UNCHANGED << op, attempt, pinBuf, residue, pinCalls, log, aaoResult,
                  opsStarted, holder, poisoned, ykPinCallback, signers >>
  /\ UNCHANGED << cliVars, orch >>

(* -------------------------- find_certificates ------------------------- *)
\* piv_keys(): the slots that hold a key, in the card's order
SeqOfSlots == [i \in Slots |-> i]

\* find_map in get_certificate_signer: index of the first pair with the slot
FindSlot(res, slot_id) ==
  LET hits == { i \in 1..Len(res) : res[i][1] = slot_id }
  IN  IF hits = {} THEN 0 ELSE CHOOSE i \in hits : \A j \in hits : i <= j

\* Ok(res) of find_certificates: the guard is dropped; get_certificate_signer
\* goes on to build the signer from the pair found.
FindCertificatesReturn(t, res) ==
  /\ holder' = NoHolder
  /\ pc' = [pc EXCEPT ![t] = "done"]
  /\ IF op[t].kind = "get_certificate_signer"
     THEN LET i == FindSlot(res, op[t].slot)
          IN  IF i = 0
              THEN /\ result' = [result EXCEPT ![t] = OkVal(0)]
                   /\ UNCHANGED signers
              ELSE /\ signers' = Append(signers,
                          [slot |-> op[t].slot, cert |-> res[i][2],
                           pin_callback |-> ykPinCallback])
                   /\ result' = [result EXCEPT ![t] = OkVal(Len(signers) + 1)]
     ELSE /\ result' = [result EXCEPT ![t] = OkVal(Len(res))]
          /\ UNCHANGED signers

\* yk.piv_keys()?
PivKeys(t) ==
  /\ pc[t] = "piv_keys"
  /\ \E o \in {"Ok", "Err"} :
       /\ log' = Logged(t, "piv_keys")
       /\ IF o = "Err"
          THEN /\ result' = [result EXCEPT ![t] = Err("YubiKey(piv_keys)")]
               /\ holder' = NoHolder
               /\ pc' = [pc EXCEPT ![t] = "done"]
               /\ UNCHANGED signers
          ELSE IF SeqOfSlots = << >>
          THEN FindCertificatesReturn(t, << >>)
          ELSE /\ pc' = [pc EXCEPT ![t] = "cert_read"]
               /\ UNCHANGED << result, holder, signers >>
  /\ UNCHANGED << op, attempt, pinBuf, residue, pinCalls, aaoResult, opsStarted,
                  poisoned, ykPinCallback >>
  /\ UNCHANGED << cliVars, orch >>

\* res after the first n slots were read and parsed
ReadPairs(n) == [i \in 1..n |-> << SeqOfSlots[i], CardCerts[SeqOfSlots[i]] >>]

\* `for slot in slots { YkCertificate::read(yk, slot)?; from_der(..)?; push }`
\* The loop runs under the guard and touches only locals, so it is one step:
\* either the read or the parse of slot number `bad` fails (0: none does).
CertReads(t) ==
  /\ pc[t] = "cert_read"
  /\ \E bad \in 0..Len(SeqOfSlots), o \in {"ReadErr", "DerErr"} :
       IF bad = 0
       THEN /\ o = "ReadErr"
            /\ log' = Logged(t, "cert_read:Ok")
            /\ FindCertificatesReturn(t, ReadPairs(Len(SeqOfSlots)))
       ELSE /\ log' = Logged(t, "cert_read:" \o o)
            /\ result' = [result EXCEPT ![t] =
                   Err(IF o = "ReadErr" THEN "YubiKey(read)" ELSE "X509(from_der)")]
            /\ holder' = NoHolder
            /\ pc' = [pc EXCEPT ![t] = "done"]
            /\ UNCHANGED signers
  /\ UNCHANGED << op, attempt, pinBuf, residue, pinCalls, aaoResult, opsStarted,
                  poisoned, ykPinCallback >>
  /\ UNCHANGED << cliVars, orch >>

(* ------------------------ CertificateSigner::sign --------------------- *)
\* sign() returning with the guard kept alive (as if leaked or moved out).
SignReturnKeepsGuard(t, r) ==
  /\ aaoResult' = [aaoResult EXCEPT ![t] = r]
  /\ result' = [result EXCEPT ![t] = WrapSignError(r)]
  /\ holder' = holder
  /\ pc' = [pc EXCEPT ![t] = "done"]

\* attempt_authenticated_operation returns r: sign() wraps the error and the
\* guard is dropped.
SignReturn(t, r) ==
  /\ aaoResult' = [aaoResult EXCEPT ![t] = r]
  /\ result' = [result EXCEPT ![t] = WrapSignError(r)]
  /\ holder' = NoHolder
  /\ pc' = [pc EXCEPT ![t] = "done"]

\* `for attempt in 1..MAX_ATTEMPTS + 1`: the next iteration, or the Err after
\* the loop when the range is exhausted.
NextAttempt(t) ==
  IF attempt[t] + 1 < MAX_ATTEMPTS + 1
  THEN /\ attempt' = [attempt EXCEPT ![t] = @ + 1]
       /\ pc' = [pc EXCEPT ![t] = "sign_data"]
       /\ UNCHANGED << aaoResult, result, holder >>
  ELSE /\ SignReturn(t, Err("SmartcardFailedAuthentication"))
       /\ UNCHANGED attempt

\* sign() up to the lock: algorithm selection and digest preparation.  An
\* error returns before the device handle is touched.
SignBegin(t, s) ==
  /\ Ready(t)
  /\ s \in 1..Len(signers)
  /\ LET prep == SignPrepare(signers[s].cert)
         o == SignOp(s, signers[s].slot, prep)
     IN  IF prep.ok
         THEN Begin(t, o, "lock", NoResult)
         ELSE Begin(t, o, "done", Err(prep.err))
  /\ UNCHANGED << pinBuf, residue, holder, poisoned, ykPinCallback, signers >>
  /\ UNCHANGED << cliVars, orch >>

\* `match op(yk)`: one piv::sign_data exchange and the arm taken on its result.
SignData(t) ==
  /\ pc[t] = "sign_data"
  /\ \E o \in SignDataOutcomes :
       LET prep == SignPrepare(signers[op[t].signer].cert)
           arm == MatchOp(o, attempt[t], signers[op[t].signer].pin_callback)
       IN  /\ log' = Logged(t, "sign_data:" \o o)
           /\ CASE arm = "return_ok" ->
                     /\ SignReturn(t, OkSig(attempt[t], prep.signature_algorithm))
                     /\ UNCHANGED attempt
                [] arm = "fail_auth" ->
                     /\ SignReturn(t, Err("SmartcardFailedAuthentication"))
                     /\ UNCHANGED attempt
                [] arm = "resolve" ->
                     /\ pc' = [pc EXCEPT ![t] = "pin_cb"]
                     /\ UNCHANGED << attempt, aaoResult, result, holder >>
                [] arm = "return_err" ->
                     /\ SignReturn(t, Err("YubiKey(" \o o \o ")"))
                     /\ UNCHANGED attempt
                [] OTHER -> NextAttempt(t)
  /\ UNCHANGED << op, pinBuf, residue, pinCalls, opsStarted, poisoned,
                  ykPinCallback, signers >>
  /\ UNCHANGED << cliVars, orch >>

\* `Zeroizing::new(pin_cb().map_err(..)?)`: the PIN callback returns.
PinCallback(t) ==
  /\ pc[t] = "pin_cb"
  /\ LET k == pinCalls[t] + 1
         o == signers[op[t].signer].pin_callback[k]
         arm == PinRetrieved(o)
     IN  /\ pinCalls' = [pinCalls EXCEPT ![t] = k]
         /\ log' = Logged(t, "pin_cb:" \o o)
         /\ CASE arm = "return_err" ->
                   /\ SignReturn(t, Err("X509(Other(error retrieving device pin))"))
                   /\ UNCHANGED << pinBuf, attempt >>
              [] arm = "verify" ->
                   /\ pinBuf' = [pinBuf EXCEPT ![t] = o]
                   /\ pc' = [pc EXCEPT ![t] = "verify_pin"]
                   /\ UNCHANGED << attempt, aaoResult, result, holder >>
              [] OTHER ->
                   /\ NextAttempt(t)
                   /\ UNCHANGED pinBuf
  /\ UNCHANGED << op, residue, opsStarted, poisoned, ykPinCallback, signers >>
  /\ UNCHANGED << cliVars, orch >>

\* The PIN callback panics: the thread unwinds through sign(), the guard is
\* dropped during the panic and the mutex is left poisoned.
PinCallbackPanics(t) ==
  /\ pc[t] = "pin_cb"
  /\ pc' = [pc EXCEPT ![t] = "panicked"]
  /\ holder' = NoHolder
  /\ poisoned' = TRUE
  /\ UNCHANGED << op, attempt, pinBuf, residue, pinCalls, log, aaoResult,
                  result, opsStarted, ykPinCallback, signers >>
  /\ UNCHANGED << cliVars, orch >>

\* `match yk.verify_pin(&pin)`: both arms end the iteration, where the
\* Zeroizing buffer goes out of scope.
VerifyPin(t) ==
  /\ pc[t] = "verify_pin"
  /\ \E v \in VerifyPinOutcomes(pinBuf[t]) :
       log' = Logged(t, "verify_pin:" \o v)
  /\ pinBuf' = [pinBuf EXCEPT ![t] = DropPin(pinBuf[t])[1]]
  /\ residue' = [residue EXCEPT ![t] = @ \/ DropPin(pinBuf[t])[2]]
  /\ NextAttempt(t)
  /\ UNCHANGED << op, pinCalls, opsStarted, poisoned, ykPinCallback, signers >>
  /\ UNCHANGED << cliVars, orch >>

(* --------------------------- specification ---------------------------- *)
Next ==
  \E t \in Threads :
    \/ \E cb \in PinCallbacks : SetPinCallback(t, cb)
    \/ FindCertificatesBegin(t)
    \/ \E slot_id \in SlotArgs : GetCertificateSignerBegin(t, slot_id)
    \/ LockWait(t)
    \/ LockAcquire(t)
    \/ LockFails(t)
    \/ PivKeys(t)
    \/ CertReads(t)
    \/ \E s \in 1..MaxSigners : SignBegin(t, s)
    \/ SignData(t)
    \/ PinCallback(t)
    \/ PinCallbackPanics(t)
    \/ VerifyPin(t)

Spec == Init /\ [][Next]_vars

(* ------------------ runs in which every call returns ------------------ *)
\* A step of thread t inside an operation that is not the taking of the
\* lock: parking on it, a device call returning, the PIN callback returning.
Step(t) ==
  \/ LockWait(t)
  \/ PivKeys(t)
  \/ CertReads(t)
  \/ SignData(t)
  \/ PinCallback(t)
  \/ VerifyPin(t)

\* The operations of yubikey.rs when the PIN callback returns instead of
\* panicking: the mutex is then never poisoned and lock() never fails.
NextReturning ==
  \E t \in Threads :
    \/ \E cb \in PinCallbacks : SetPinCallback(t, cb)
    \/ FindCertificatesBegin(t)
    \/ \E slot_id \in SlotArgs : GetCertificateSignerBegin(t, slot_id)
    \/ \E s \in 1..MaxSigners : SignBegin(t, s)
    \/ LockAcquire(t)
    \/ Step(t)

\* Fair scheduling: a thread inside an operation keeps running (callers are
\* free to start no further operation), and a thread parked on the mutex
\* gets it if it is free again and again.
SpecFair ==
  /\ Init
  /\ [][NextReturning]_vars
  /\ \A t \in Threads : WF_vars(Step(t)) /\ SF_vars(LockAcquire(t))

(* ------------------ sign() over RSA certificates ---------------------- *)
\* Modulus lengths, in bytes, of the RSA certificates tried.
ModLens == 0..MaxModLen

\* The RSA certificates a card may hold in a slot: any modulus length, with a
\* signature algorithm sign() can or cannot resolve.
RsaCerts == { Cert("Rsa", m, s) : m \in ModLens, s \in {"RsaSha256", "Unknown"} }

\* A signer handed out by get_certificate_signer for a slot holding an RSA
\* certificate, on a YubiKey without PIN callback.
InitRsa ==
  /\ Quiescent
  /\ ykPinCallback = NoCallback
  /\ \E c \in RsaCerts :
       signers = << [slot |-> 1, cert |-> c, pin_callback |-> NoCallback] >>
  /\ NoCommand
  /\ NoOrchestration

\* sign() calls on that signer.
NextRsa ==
  \E t \in Threads :
    \/ SignBegin(t, 1)
    \/ LockWait(t)
    \/ LockAcquire(t)
    \/ SignData(t)

SpecRsa == InitRsa /\ [][NextRsa]_vars

(* ------------- two signers of one device, signing at once ------------- *)
\* The state after `yk.set_pin_callback(cb)` (or none) and two
\* get_certificate_signer calls, for an RSA and an ECDSA slot: both signers
\* hold a clone of the same Arc<Mutex<RawYubiKey>> and of the callback.
InitShared ==
  /\ Quiescent
  /\ ykPinCallback \in PinCallbacks \cup {NoCallback}
  /\ signers = << [slot |-> 1, cert |-> CardCerts[1],
                   pin_callback |-> ykPinCallback],
                  [slot |-> 5, cert |-> CardCerts[5],
                   pin_callback |-> ykPinCallback] >>
  /\ NoCommand
  /\ NoOrchestration

\* sign() calls on the two signers, from any thread.
NextShared ==
  \E t \in Threads :
    \/ \E s \in 1..Len(signers) : SignBegin(t, s)
    \/ LockWait(t)
    \/ LockAcquire(t)
    \/ LockFails(t)
    \/ SignData(t)
    \/ PinCallback(t)
    \/ PinCallbackPanics(t)
    \/ VerifyPin(t)

SpecShared == InitShared /\ [][NextShared]_vars

(* ===================== main.rs: the command line ====================== *)
\* const APPLE_TIMESTAMP_URL
APPLE_TIMESTAMP_URL == "http://timestamp.apple.com/ts01"

SeqsUpTo(S, n) == UNION { [1..k -> S] : k \in 0..n }

\* The tags pem::parse_many can yield, as command_sign tells them apart.
PemTags == {"CERTIFICATE", "PRIVATE KEY", "OTHER"}

\* The sections of all PEM files in reading order, cut into files after the
\* positions cuts[1] <= cuts[2] <= ..: the i-th file holds the sections between
\* the (i-1)-th and the i-th cut.
SplitSections(flat, cuts) ==
  [i \in 1..Len(cuts) |->
     SubSeq(flat, (IF i = 1 THEN 0 ELSE cuts[i - 1]) + 1, cuts[i])]

CutsOf(n) ==
  { c \in SeqsUpTo(0..n, MaxPemSources) :
      /\ \A i \in 1..(Len(c) - 1) : c[i] <= c[i + 1]
      /\ IF Len(c) = 0 THEN n = 0 ELSE c[Len(c)] = n }

\* values of --pem-source: the files named, each as the tags of its sections
PemSourceArgs ==
  UNION { { SplitSections(flat, cuts) : cuts \in CutsOf(Len(flat)) } :
            flat \in SeqsUpTo(PemTags, MaxSections) }

\* values of --timestamp-url; NotGiven: the option is absent
NotGiven == "(not given)"
TimestampUrlArgs == {NotGiven, "none", "http://tsa.example/"}

\* The file at input_path / path: missing, not a Mach-O, a Mach-O without
\* LC_CODE_SIGNATURE, a Mach-O with an embedded signature.
InputFiles == {"missing", "garbage", "unsigned", "signed"}

\* possible_values of extract's --data
DataFormats ==
  { "blobs", "cms-ber", "cms-pem", "cms-raw", "cms", "code-directory-raw",
    "code-directory-serialized-raw", "code-directory-serialized",
    "code-directory", "linkedit-segment-raw", "requirements-raw",
    "requirements-serialized-raw", "requirements-serialized", "requirements",
    "segment-info", "signature-raw", "superblob" }

\* Arg::default_value: value_of gives the default when the option is absent.
ValueOf(given, default) == IF given = NotGiven THEN default ELSE given

SignArgs ==
  { [command |-> "sign", input |-> f, pem_source |-> ps, timestamp_url |-> ts] :
      f \in InputFiles, ps \in PemSourceArgs, ts \in TimestampUrlArgs }

ExtractArgs ==
  { [command |-> "extract", input |-> f, data |-> d, universal_index |-> u] :
      f \in InputFiles, d \in DataFormats \cup {NotGiven}, u \in {NotGiven, "1", "x"} }

\* main_impl: a command line has been matched, nothing has run yet.
InitCli ==
  /\ Quiescent
  /\ ykPinCallback = NoCallback
  /\ signers = << >>
  /\ args \in SignArgs \cup ExtractArgs
  /\ cpc = "start"
  /\ pemRead = 0
  /\ private_keys = << >>
  /\ public_certificates = << >>
  /\ machoSigner = NewMachOSigner
  /\ stdout = << >>
  /\ outputFile = "untouched"
  /\ exitResult = "None"
  /\ NoOrchestration

\* The command returns r.
Exit(r) == cpc' = "done" /\ exitResult' = r

\* println!
Println(out, line) == Append(out, line)

\* find_signature_data(&macho)?: None when the Mach-O has no
\* LC_CODE_SIGNATURE load command.
FindSignatureData(f) == IF f = "signed" THEN "Some" ELSE "None"

\* What load_existing_signature_context can answer: an embedded signature may
\* fail to parse; a binary without one has nothing to load.
LoadExistingSignatureContext(f) == IF f = "signed" THEN {"Ok", "Err"} ELSE {"Ok"}

(* ----------------------------- command_sign --------------------------- *)
\* The sentinel is not honoured: every value is taken for a server URL.
TimestampUrlNoSentinel(a) == ValueOf(a.timestamp_url, APPLE_TIMESTAMP_URL)

\* `if timestamp_url == "none" { None } else { Some(timestamp_url) }`
TimestampUrl(a) ==
  LET timestamp_url == ValueOf(a.timestamp_url, APPLE_TIMESTAMP_URL)
  IN  IF timestamp_url = "none" THEN "None" ELSE timestamp_url

\* command_sign up to the PEM loop: the arguments, std::fs::read(input_path),
\* MachOSigner::new and load_existing_signature_context.
SignReadInput ==
  /\ args.command = "sign"
  /\ cpc = "start"
  /\ IF args.input = "missing"
     THEN /\ stdout' = Println(stdout, "signing")
          /\ Exit("Err(Io: input_path)")
     ELSE /\ stdout' = Println(Println(stdout, "signing"), "parsing Mach-O")
          /\ IF args.input = "garbage"
             THEN Exit("Err(MachO)")
             ELSE \E o \in LoadExistingSignatureContext(args.input) :
                    IF o = "Ok"
                    THEN cpc' = "read_pem" /\ UNCHANGED exitResult
                    ELSE Exit("Err(SignatureContext)")
  /\ UNCHANGED << args, pemRead, private_keys, public_certificates,
                  machoSigner, outputFile >>
  /\ UNCHANGED << ykVars, orch >>

\* pem.contents of the j-th section of the i-th --pem-source file
Contents(i, j) == << i, j >>

\* The sections of file i with the given tag, in order.
SectionsOf(i, file, tag) ==
  LET idx == SelectSeq([j \in 1..Len(file) |-> j], LAMBDA j : file[j] = tag)
  IN  [k \in 1..Len(idx) |-> Contents(i, idx[k])]

\* One iteration of `for pem_source in pem_sources`: the file is read and its
\* sections are sorted into public_certificates and private_keys.
ReadPemSource ==
  /\ args.command = "sign"
  /\ cpc = "read_pem"
  /\ pemRead < Len(args.pem_source)
  /\ LET i == pemRead + 1
         file == args.pem_source[i]
         unhandled == SelectSeq(file, LAMBDA tag : tag = "OTHER")
     IN  \E read \in {"Ok", "Err"} :
           IF read = "Err"
           THEN /\ stdout' = Println(stdout, "reading PEM data")
                /\ Exit("Err(Io: pem_source)")
                /\ UNCHANGED << pemRead, private_keys, public_certificates >>
           ELSE /\ stdout' = Println(stdout, "reading PEM data") \o
                                [k \in 1..Len(unhandled) |-> "(unhandled PEM tag)"]
                /\ public_certificates' =
                     public_certificates \o SectionsOf(i, file, "CERTIFICATE")
                /\ private_keys' = private_keys \o SectionsOf(i, file, "PRIVATE KEY")
                /\ pemRead' = i
                /\ UNCHANGED << cpc, exitResult >>
  /\ UNCHANGED << args, machoSigner, outputFile >>
  /\ UNCHANGED << ykVars, orch >>

\* The first certificate is read with [0] instead of remove(0): it stays in
\* the list of certificates.
PairSigningKeyKeepsCert(keys, certs, ms, ts, o) ==
  LET same == [signer |-> ms, certs |-> certs, out |-> << >>, err |-> "None"]
  IN  IF Len(keys) > 1
      THEN [same EXCEPT !.out = << "at most 1 PRIVATE KEY can be present; aborting" >>,
                        !.err = "Err(CliBadArgument)"]
      ELSE IF Len(keys) = 0 THEN same
      ELSE IF o = "key_err" THEN [same EXCEPT !.err = "Err(Pkcs8)"]
      ELSE IF Len(certs) = 0
      THEN [same EXCEPT !.out = << "a PRIVATE KEY requires a corresponding CERTIFICATE" >>,
                        !.err = "Err(CliBadArgument)"]
      ELSE IF o = "cert_err"
      THEN [same EXCEPT !.certs = Tail(certs), !.err = "Err(CertificateDer: signing)"]
      ELSE LET keyed == [ms EXCEPT !.signing_key = << keys[1], Head(certs) >>]
           IN  IF ts = "None"
               THEN [signer |-> keyed, certs |-> certs,
                     out |-> << "registering signing key" >>, err |-> "None"]
               ELSE IF o = "url_err"
               THEN [signer |-> keyed, certs |-> certs,
                     out |-> << "registering signing key",
                                "using time-stamp protocol server" >>,
                     err |-> "Err(Url)"]
               ELSE [signer |-> [keyed EXCEPT !.time_stamp_url = ts],
                     certs |-> certs,
                     out |-> << "registering signing key",
                                "using time-stamp protocol server" >>,
                     err |-> "None"]

\* Lines 523-552 as a function of the lists read and of what the parsers
\* answer (o: which fallible call fails, if any): the pairing of the key with
\* the first certificate.  Gives the signer, the certificates left, the lines
\* printed and the error returned ("None": the command goes on).
PairSigningKey(keys, certs, ms, ts, o) ==
  LET same == [signer |-> ms, certs |-> certs, out |-> << >>, err |-> "None"]
  IN  IF Len(keys) > 1
      THEN [same EXCEPT !.out = << "at most 1 PRIVATE KEY can be present; aborting" >>,
                        !.err = "Err(CliBadArgument)"]
      ELSE IF Len(keys) = 0 THEN same
      ELSE IF o = "key_err" THEN [same EXCEPT !.err = "Err(Pkcs8)"]
      ELSE IF Len(certs) = 0
      THEN [same EXCEPT !.out = << "a PRIVATE KEY requires a corresponding CERTIFICATE" >>,
                        !.err = "Err(CliBadArgument)"]
      ELSE IF o = "cert_err"
      THEN [same EXCEPT !.certs = Tail(certs), !.err = "Err(CertificateDer: signing)"]
      ELSE LET keyed == [ms EXCEPT !.signing_key = << keys[1], Head(certs) >>]
           IN  IF ts = "None"
               THEN [signer |-> keyed, certs |-> Tail(certs),
                     out |-> << "registering signing key" >>, err |-> "None"]
               ELSE IF o = "url_err"
               THEN [signer |-> keyed, certs |-> Tail(certs),
                     out |-> << "registering signing key",
                                "using time-stamp protocol server" >>,
                     err |-> "Err(Url)"]
               ELSE [signer |-> [keyed EXCEPT !.time_stamp_url = ts],
                     certs |-> Tail(certs),
                     out |-> << "registering signing key",
                                "using time-stamp protocol server" >>,
                     err |-> "None"]

\* After the PEM loop: the key checks and the registration of the signing key.
RegisterSigningKey ==
  /\ args.command = "sign"
  /\ cpc = "read_pem"
  /\ pemRead = Len(args.pem_source)
  /\ \E o \in {"ok", "key_err", "cert_err", "url_err"} :
       LET r == PairSigningKey(private_keys, public_certificates, machoSigner,
                               TimestampUrl(args), o)
       IN  /\ machoSigner' = r.signer
           /\ public_certificates' = r.certs
           /\ stdout' = stdout \o r.out
           /\ IF r.err = "None"
              THEN cpc' = "chain" /\ UNCHANGED exitResult
              ELSE Exit(r.err)
  /\ UNCHANGED << args, pemRead, private_keys, outputFile >>
  /\ UNCHANGED << ykVars, orch >>

\* `for cert in public_certificates { signer.chain_certificate_der(&cert)? }`:
\* the certificates registered when the call for number `bad` fails (0: none
\* fails).
ChainRegistered(certs, bad) ==
  IF bad = 0 THEN certs ELSE SubSeq(certs, 1, bad - 1)

\* The chain certificate loop; it touches only the signer, so it is one step.
ChainCertificates ==
  /\ args.command = "sign"
  /\ cpc = "chain"
  /\ \E bad \in 0..Len(public_certificates) :
       LET done == ChainRegistered(public_certificates, bad)
           tried == IF bad = 0 THEN Len(public_certificates) ELSE bad
       IN  /\ machoSigner' = [machoSigner EXCEPT !.chain = @ \o done]
           /\ stdout' = stdout \o
                 [k \in 1..tried |-> "registering extra X.509 certificate"]
           /\ IF bad = 0
              THEN cpc' = "settings" /\ UNCHANGED exitResult
              ELSE Exit("Err(CertificateDer: chain)")
  /\ UNCHANGED << args, pemRead, private_keys, public_certificates, outputFile >>
  /\ UNCHANGED << ykVars, orch >>

\* The settings read with File::create(output_path) moved ahead of them: the
\* output file is already truncated when one of them is refused.
SignSettingsAfterCreate ==
  /\ args.command = "sign"
  /\ cpc = "settings"
  /\ outputFile' = "truncated"
  /\ \E o \in {"Ok", "Err"}, exprs \in {0, 1} :
       /\ stdout' = stdout \o
             [k \in 1..exprs |-> "setting designated code requirements"]
       /\ IF o = "Ok"
          THEN cpc' = "create" /\ UNCHANGED exitResult
          ELSE Exit("Err(Settings)")
  /\ UNCHANGED << args, pemRead, private_keys, public_certificates,
                  machoSigner >>
  /\ UNCHANGED << ykVars, orch >>

\* Code requirements, code resources, entitlements and option flags: each is
\* read and handed to the signer, and any of them may be refused.
SignSettings ==
  /\ args.command = "sign"
  /\ cpc = "settings"
  /\ \E o \in {"Ok", "Err"}, exprs \in {0, 1} :
       /\ stdout' = stdout \o
             [k \in 1..exprs |-> "setting designated code requirements"]
       /\ IF o = "Ok"
          THEN cpc' = "create" /\ UNCHANGED exitResult
          ELSE Exit("Err(Settings)")
  /\ UNCHANGED << args, pemRead, private_keys, public_certificates,
                  machoSigner, outputFile >>
  /\ UNCHANGED << ykVars, orch >>

\* std::fs::File::create(output_path)?: the file is created or truncated.
CreateOutputFile ==
  /\ args.command = "sign"
  /\ cpc = "create"
  /\ stdout' = Println(stdout, "writing")
  /\ \E o \in {"Ok", "Err"} :
       IF o = "Ok"
       THEN /\ outputFile' = "truncated"
            /\ cpc' = "write"
            /\ UNCHANGED exitResult
       ELSE /\ Exit("Err(Io: output_path)")
            /\ UNCHANGED outputFile
  /\ UNCHANGED << args, pemRead, private_keys, public_certificates, machoSigner >>
  /\ UNCHANGED << ykVars, orch >>

\* signer.write_signed_binary(&mut fh)?
WriteSignedBinary ==
  /\ args.command = "sign"
  /\ cpc = "write"
  /\ \E o \in {"Ok", "Err"} :
       IF o = "Ok"
       THEN outputFile' = "written" /\ Exit("Ok")
       ELSE outputFile' \in {"truncated", "partial"} /\ Exit("Err(Signing)")
  /\ UNCHANGED << args, pemRead, private_keys, public_certificates,
                  machoSigner, stdout >>
  /\ UNCHANGED << ykVars, orch >>

(* ---------------------------- command_extract ------------------------- *)
\* command_extract up to find_signature_data: the arguments,
\* usize::from_str(index), std::fs::read(path) and get_macho_from_data.
ExtractReadInput ==
  /\ args.command = "extract"
  /\ cpc = "start"
  /\ IF ValueOf(args.universal_index, "0") \notin {"0", "1"}
     THEN Exit("Err(CliBadArgument)")
     ELSE IF args.input = "missing" THEN Exit("Err(Io: path)")
     ELSE IF args.input = "garbage" THEN Exit("Err(MachO)")
     ELSE \E o \in {"Ok", "Err"} :
            IF o = "Ok"
            THEN cpc' = "find_signature" /\ UNCHANGED exitResult
            ELSE Exit("Err(MachO)")
  /\ UNCHANGED << args, pemRead, private_keys, public_certificates,
                  machoSigner, stdout, outputFile >>
  /\ UNCHANGED << ykVars, orch >>

\* A missing signature is passed on to the format's arm instead of rejected.
ExtractFindSignatureTolerant ==
  /\ args.command = "extract"
  /\ cpc = "find_signature"
  /\ cpc' = "print"
  /\ UNCHANGED << args, pemRead, private_keys, public_certificates,
                  machoSigner, stdout, outputFile, exitResult >>
  /\ UNCHANGED << ykVars, orch >>

\* `find_signature_data(&macho)?.ok_or(BinaryNoCodeSignature)?`
ExtractFindSignature ==
  /\ args.command = "extract"
  /\ cpc = "find_signature"
  /\ IF FindSignatureData(args.input) = "None"
     THEN Exit("Err(BinaryNoCodeSignature)")
     ELSE cpc' = "print" /\ UNCHANGED exitResult
  /\ UNCHANGED << args, pemRead, private_keys, public_certificates,
                  machoSigner, stdout, outputFile >>
  /\ UNCHANGED << ykVars, orch >>

\* The formats printed straight from the signature region found; the others
\* call parse_signature_data first.
UnparsedFormats == {"linkedit-segment-raw", "segment-info", "signature-raw"}

\* `match format { .. }`: the requested data is printed to stdout; a format
\* whose data is not in the signature prints to stderr only; a parse error
\* returns with nothing printed.
ExtractPrint ==
  /\ args.command = "extract"
  /\ cpc = "print"
  /\ LET format == ValueOf(args.data, "segment-info")
     IN  \E o \in {"data", "absent", "Err"} :
           /\ format \in UnparsedFormats => o = "data"
           /\ IF o = "Err"
              THEN Exit("Err(SignatureData)") /\ UNCHANGED stdout
              ELSE /\ Exit("Ok")
                   /\ stdout' = IF o = "data" THEN Println(stdout, format) ELSE stdout
  /\ UNCHANGED << args, pemRead, private_keys, public_certificates,
                  machoSigner, outputFile >>
  /\ UNCHANGED << ykVars, orch >>

NextCli ==
  \/ SignReadInput
  \/ ReadPemSource
  \/ RegisterSigningKey
  \/ ChainCertificates
  \/ SignSettings
  \/ CreateOutputFile
  \/ WriteSignedBinary
  \/ ExtractReadInput
  \/ ExtractFindSignature
  \/ ExtractPrint

SpecCli == InitCli /\ [][NextCli]_vars

(* ============ the signing orchestrator (write_signed_binary) =========== *)
\* nCodeSlots = ceil(code_limit / page_size)
NCodeSlots(code_limit) == (code_limit + PageSize - 1) \div PageSize

\* Length of the SuperBlob holding a Code Directory with n code slots and a
\* signature blob of sig bytes (one unit per hash; the fixed framing left out).
SuperBlobLength(n, sig) == n + sig

\* What page i of the binary holds: the first page carries the load commands,
\* among them LC_CODE_SIGNATURE with the size of the signature data.
PageContent(i, datasize) ==
  IF i = 1 THEN << "load commands", datasize >> ELSE << "page", i >>

\* digest(kind, bytes)
PageHash(content) == << "hash", content >>

\* The page hashes over [0, code_limit) of the binary whose load commands
\* announce datasize bytes of signature data.
PageHashes(code_limit, datasize) ==
  [i \in 1..NCodeSlots(code_limit) |-> PageHash(PageContent(i, datasize))]

\* The real CMS is put into the slot as it is: a smaller one shrinks the blob.
SignatureBlobUnpadded(cms, placeholder) ==
  IF cms > placeholder
  THEN [err |-> "SignatureTooLarge", cms |-> 0, padding |-> 0]
  ELSE [err |-> "None", cms |-> cms, padding |-> 0]

\* The final signature blob for a real CMS of cms bytes in a placeholder of
\* placeholder bytes: padded with trailing zeros, or SignatureTooLarge.
SignatureBlob(cms, placeholder) ==
  IF cms > placeholder
  THEN [err |-> "SignatureTooLarge", cms |-> 0, padding |-> 0]
  ELSE [err |-> "None", cms |-> cms, padding |-> placeholder - cms]

BlobSize(blob) == blob.cms + blob.padding

NoBlob == [err |-> "None", cms |-> 0, padding |-> 0]
NoBuild == [datasize |-> 0, code_limit |-> 0, hashes |-> << >>]

\* Steps 1-3: the Mach-O is loaded and the identity has declared its
\* max_signature_size.
InitSuperBlob ==
  /\ Quiescent
  /\ ykPinCallback = NoCallback
  /\ signers = << >>
  /\ NoCommand
  /\ \E c \in 1..MaxCodeSize, m \in 0..MaxSignatureSize :
       orch = [step |-> "placeholder", code_size |-> c, max_signature_size |-> m,
               placeholder |-> 0, build |-> NoBuild, cms |-> 0,
               signature_blob |-> NoBlob, out |-> NoBuild, err |-> "None"]

\* Step 4: the placeholder SuperBlob, with a signature blob of exactly
\* max_signature_size bytes, fixes the signature size in the load commands;
\* code_limit is the offset where the signature begins.
AssemblePlaceholder ==
  /\ orch.step = "placeholder"
  /\ LET code_limit == orch.code_size
         datasize == SuperBlobLength(NCodeSlots(code_limit), orch.max_signature_size)
     IN  orch' = [orch EXCEPT !.step = "code_directory",
                              !.placeholder = orch.max_signature_size,
                              !.build = [datasize |-> datasize,
                                         code_limit |-> code_limit,
                                         hashes |-> << >>]]
  /\ UNCHANGED << ykVars, cliVars >>

\* Step 5: the Code Directory with the page hashes over [0, code_limit).
BuildCodeDirectory ==
  /\ orch.step = "code_directory"
  /\ orch' = [orch EXCEPT !.step = "cms",
                          !.build.hashes =
                             PageHashes(orch.build.code_limit, orch.build.datasize)]
  /\ UNCHANGED << ykVars, cliVars >>

\* Step 6: the identity signs the Code Directory; the CMS has some size.
CmsSign ==
  /\ orch.step = "cms"
  /\ \E n \in 0..(MaxSignatureSize + 1) :
       orch' = [orch EXCEPT !.step = "patch", !.cms = n]
  /\ UNCHANGED << ykVars, cliVars >>

\* Step 7: the placeholder is patched with the (padded) signature.
PatchPlaceholder ==
  /\ orch.step = "patch"
  /\ LET blob == SignatureBlob(orch.cms, orch.placeholder)
     IN  IF blob.err # "None"
         THEN orch' = [orch EXCEPT !.step = "failed", !.err = blob.err]
         ELSE orch' = [orch EXCEPT !.step = "write", !.signature_blob = blob]
  /\ UNCHANGED << ykVars, cliVars >>

\* Step 8: the output is streamed; its load commands announce the final
\* SuperBlob's length and its pages are what a verifier will hash.
StreamOutput ==
  /\ orch.step = "write"
  /\ LET datasize == SuperBlobLength(Len(orch.build.hashes),
                                     BlobSize(orch.signature_blob))
     IN  orch' = [orch EXCEPT !.step = "done",
                              !.out = [datasize |-> datasize,
                                       code_limit |-> orch.code_size,
                                       hashes |-> PageHashes(orch.code_size, datasize)]]
  /\ UNCHANGED << ykVars, cliVars >>

NextSuperBlob ==
  \/ AssemblePlaceholder
  \/ BuildCodeDirectory
  \/ CmsSign
  \/ PatchPlaceholder
  \/ StreamOutput

SpecSuperBlob == InitSuperBlob /\ [][NextSuperBlob]_vars

(* ------------------------------ properties ---------------------------- *)
InSign(t) == op[t].kind = "sign"
SignDone(t) == InSign(t) /\ pc[t] = "done"

\* The device and callback events of t's current operation (lock bookkeeping
\* left out), in order.
Events(t) == SelectSeq(log[t], LAMBDA e : e \notin {"wait", "lock"})

SignDataEvents == { "sign_data:" \o o : o \in SignDataOutcomes }
PinEvents == { "pin_cb:" \o o : o \in PinOutcomes }
VerifyEvents == {"verify_pin:Ok", "verify_pin:Err"}
AuthError == "sign_data:AuthenticationError"

CountIn(seq, S) == Cardinality({ i \in 1..Len(seq) : seq[i] \in S })
Last(seq) == seq[Len(seq)]
CallbackOf(t) == signers[op[t].signer].pin_callback
SmartcardAuth == Err("SmartcardFailedAuthentication")

\* C1: one sign invocation calls sign_data at most MAX_ATTEMPTS times; after
\* the MAX_ATTEMPTS-th call nothing more happens, and when that call answered
\* AuthenticationError the invocation has failed with
\* SmartcardFailedAuthentication without another call of the PIN callback.
C1_AttemptsBounded ==
  \A t \in Threads :
    InSign(t) =>
      LET ev == Events(t)
      IN  /\ CountIn(ev, SignDataEvents) <= MAX_ATTEMPTS
          /\ CountIn(ev, SignDataEvents) = MAX_ATTEMPTS =>
               /\ Last(ev) \in SignDataEvents
               /\ pc[t] = "done"
               /\ CountIn(ev, PinEvents) = MAX_ATTEMPTS - 1
               /\ Last(ev) = AuthError =>
                    /\ aaoResult[t] = SmartcardAuth
                    /\ result[t] = WrapSignError(SmartcardAuth)

C1_Witness ==
  \E t \in Threads :
    /\ SignDone(t)
    /\ CountIn(Events(t), {AuthError}) = MAX_ATTEMPTS
    /\ aaoResult[t] = SmartcardAuth

\* During t's invocation the card behaved as one that refuses to sign until a
\* correct PIN has been verified: sign_data answers AuthenticationError
\* before the first accepted verify_pin and signs after it, and verify_pin
\* accepts exactly the correct PIN.
GatedRun(t) ==
  LET ev == Events(t)
  IN  /\ Len(ev) >= 1
      /\ \A i \in 1..Len(ev) :
           /\ ev[i] \in SignDataEvents =>
                ev[i] = (IF \E j \in 1..(i - 1) : ev[j] = "verify_pin:Ok"
                         THEN "sign_data:Ok" ELSE AuthError)
           /\ ev[i] \in VerifyEvents =>
                (ev[i] = "verify_pin:Ok" <=> ev[i - 1] = "pin_cb:correct")

SigAlgOf(t) == signers[op[t].signer].cert.sig

\* C2 as stated: callback answers wrong, wrong, correct on a PIN-gated card,
\* and the invocation succeeds with exactly one signature.
C2_Original ==
  \A t \in Threads :
    (/\ SignDone(t)
     /\ GatedRun(t)
     /\ CallbackOf(t) # NoCallback
     /\ CallbackOf(t)[1] = "wrong"
     /\ CallbackOf(t)[2] = "wrong"
     /\ CallbackOf(t)[3] = "correct")
    => /\ result[t].kind = "Ok"
       /\ CountIn(Events(t), {"sign_data:Ok"}) = 1

\* C2 (amended): on a PIN-gated card with a callback whose first PIN is
\* wrong, a correct second PIN makes the third sign attempt succeed with
\* exactly one signature; a wrong second PIN ends the invocation at the third
\* attempt with SmartcardFailedAuthentication, no third PIN being asked for
\* and no signature emitted.
C2_ThirdAttemptIsLast ==
  \A t \in Threads :
    (/\ SignDone(t)
     /\ GatedRun(t)
     /\ CallbackOf(t) # NoCallback
     /\ CallbackOf(t)[1] = "wrong")
    => /\ CallbackOf(t)[2] = "correct" =>
            /\ result[t] = OkSig(MAX_ATTEMPTS, SigAlgOf(t))
            /\ CountIn(Events(t), {"sign_data:Ok"}) = 1
       /\ CallbackOf(t)[2] = "wrong" =>
            /\ aaoResult[t] = SmartcardAuth
            /\ CountIn(Events(t), {"sign_data:Ok"}) = 0
            /\ CountIn(Events(t), PinEvents) = MAX_ATTEMPTS - 1

C2_Witness ==
  \E t \in Threads :
    /\ SignDone(t)
    /\ GatedRun(t)
    /\ CallbackOf(t) # NoCallback
    /\ CallbackOf(t)[1] = "wrong"
    /\ CallbackOf(t)[2] = "correct"
    /\ result[t].kind = "Ok"

\* C3: a signer without PIN callback whose first sign_data answers
\* AuthenticationError has failed with SmartcardFailedAuthentication at once:
\* that one sign_data call is all that happened, and the handle is released.
C3_NoCallbackFailsAtOnce ==
  \A t \in Threads :
    (/\ InSign(t)
     /\ Len(Events(t)) >= 1
     /\ CallbackOf(t) = NoCallback
     /\ Events(t)[1] = AuthError)
    => /\ Events(t) = << AuthError >>
       /\ pc[t] = "done"
       /\ aaoResult[t] = SmartcardAuth
       /\ holder # t

C3_Witness ==
  \E t \in Threads :
    /\ SignDone(t)
    /\ CallbackOf(t) = NoCallback
    /\ Events(t) = << AuthError >>
    /\ result[t] = WrapSignError(SmartcardAuth)

\* C4: first attempt AuthenticationError, a PIN from the callback that
\* verify_pin accepts, second attempt Ok: the invocation has returned the
\* second attempt's signature with the certificate's signature algorithm,
\* after exactly these four calls, and has released the handle.
C4_SecondAttemptSignature ==
  \A t \in Threads :
    (/\ InSign(t)
     /\ Len(Events(t)) >= 4
     /\ Events(t)[1] = AuthError
     /\ Events(t)[2] \in PinEvents
     /\ Events(t)[3] = "verify_pin:Ok"
     /\ Events(t)[4] = "sign_data:Ok")
    => /\ Len(Events(t)) = 4
       /\ pc[t] = "done"
       /\ result[t] = OkSig(2, SigAlgOf(t))
       /\ holder # t

C4_Witness ==
  \E t \in Threads :
    /\ SignDone(t)
    /\ Events(t) = << AuthError, "pin_cb:correct", "verify_pin:Ok", "sign_data:Ok" >>
    /\ result[t].sig = 2

PinRetrievalError == Err("X509(Other(error retrieving device pin))")

\* C5 as stated: an Err of the PIN callback ends the invocation with
\* SmartcardFailedAuthentication and nothing follows it.
C5_Original ==
  \A t \in Threads :
    InSign(t) =>
      \A i \in 1..Len(Events(t)) :
        Events(t)[i] = "pin_cb:error" =>
          /\ i = Len(Events(t))
          /\ pc[t] = "done"
          /\ aaoResult[t] = SmartcardAuth

\* C5 (amended): an Err of the PIN callback ends the invocation with the
\* callback's error mapped to X509CertificateError::Other("error retrieving
\* device pin: ..") -- not SmartcardFailedAuthentication -- and nothing
\* follows it: no verify_pin, no further sign attempt.
C5_CallbackErrorEnds ==
  \A t \in Threads :
    InSign(t) =>
      \A i \in 1..Len(Events(t)) :
        Events(t)[i] = "pin_cb:error" =>
          /\ i = Len(Events(t))
          /\ pc[t] = "done"
          /\ aaoResult[t] = PinRetrievalError
          /\ result[t] = WrapSignError(PinRetrievalError)
          /\ holder # t

C5_Witness ==
  \E t \in Threads :
    /\ SignDone(t)
    /\ Len(Events(t)) >= 2
    /\ Last(Events(t)) = "pin_cb:error"
    /\ aaoResult[t] = PinRetrievalError

\* C6: a sign_data error other than AuthenticationError, on whatever
\* attempt, is the last thing the invocation did, and the invocation has
\* failed with that very error.
C6_OtherErrorEnds ==
  \A t \in Threads :
    InSign(t) =>
      \A i \in 1..Len(Events(t)) :
        \A o \in SignDataOutcomes \ {"Ok", "AuthenticationError"} :
          Events(t)[i] = "sign_data:" \o o =>
            /\ i = Len(Events(t))
            /\ pc[t] = "done"
            /\ aaoResult[t] = Err("YubiKey(" \o o \o ")")
            /\ result[t].cause = "YubiKey(" \o o \o ")"
            /\ holder # t

C6_Witness ==
  \E t \in Threads :
    /\ SignDone(t)
    /\ Len(Events(t)) = 7
    /\ Last(Events(t)) = "sign_data:KeyError"
    /\ aaoResult[t] = Err("YubiKey(KeyError)")

\* Thread t is performing an exchange with the device.
InExchange(t) == pc[t] \in {"piv_keys", "cert_read", "sign_data", "verify_pin"}

\* C7: at any moment at most one thread is in a device exchange (piv_keys,
\* certificate read, sign_data, verify_pin), and that thread holds the guard.
C7_ExclusiveExchange ==
  /\ \A t \in Threads : InExchange(t) => holder = t
  /\ \A t1, t2 \in Threads : (InExchange(t1) /\ InExchange(t2)) => t1 = t2

C7_Witness ==
  \E t1, t2 \in Threads :
    /\ InExchange(t1)
    /\ op[t1].kind \in {"find_certificates", "get_certificate_signer"}
    /\ InSign(t2)
    /\ pc[t2] = "blocked"

C9_PinWiped ==
  \A t \in Threads :
    /\ ~residue[t]
    /\ pinBuf[t] # "none" => (InSign(t) /\ pc[t] = "verify_pin")

C9_Witness ==
  \E t \in Threads :
    /\ SignDone(t)
    /\ CountIn(Events(t), {"verify_pin:Err"}) >= 1
    /\ CountIn(Events(t), {"verify_pin:Ok"}) >= 1
    /\ pinBuf[t] = "none"

\* C10: sign with an Ed25519 certificate has failed at once with
\* UnknownKeyAlgorithm: no lock was taken and no device or callback call made.
C10_Ed25519Rejected ==
  \A t \in Threads :
    (InSign(t) /\ signers[op[t].signer].cert.key = "Ed25519")
    => /\ pc[t] = "done"
       /\ log[t] = << >>
       /\ result[t] = Err("Err:UnknownKeyAlgorithm(ed25519)")
       /\ holder # t

C10_Witness ==
  \E t \in Threads :
    /\ SignDone(t)
    /\ signers[op[t].signer].cert.key = "Ed25519"
    /\ result[t].kind = "Err"
    /\ log[t] = << >>

\* Thread t's sign() call got as far as the device handle.
ReachedDevice(t) == pc[t] # "done" \/ log[t] # << >>

RsaLengthError == Err("Err:Other(unable to determine RSA key algorithm)")

\* C11: for an RSA certificate the card algorithm follows from the modulus
\* length in bytes alone: 129 -> Rsa1024 with the digest padded to 128 bytes,
\* 257 -> Rsa2048 padded to 256 bytes (whenever the call gets to the device,
\* which it does when the signature algorithm resolves); every other length
\* has failed with the RSA-key-algorithm error, no lock taken and no device
\* call made.
C11_RsaByModulusLength ==
  \A t \in Threads :
    (InSign(t) /\ signers[op[t].signer].cert.key = "Rsa") =>
      LET c == signers[op[t].signer].cert
      IN  /\ c.modlen \notin {129, 257} =>
               /\ pc[t] = "done"
               /\ log[t] = << >>
               /\ result[t] = RsaLengthError
               /\ holder # t
          /\ c.modlen \in {129, 257} =>
               /\ result[t] # RsaLengthError
               /\ c.sig = "RsaSha256" => ReachedDevice(t)
               /\ ReachedDevice(t) =>
                    /\ op[t].algorithm_id =
                         (IF c.modlen = 129 THEN "Rsa1024" ELSE "Rsa2048")
                    /\ op[t].digest_len = c.modlen - 1
                    /\ op[t].padded

C11_Witness ==
  \E t \in Threads :
    /\ SignDone(t)
    /\ signers[op[t].signer].cert = Cert("Rsa", 129, "RsaSha256")
    /\ op[t].algorithm_id = "Rsa1024"
    /\ op[t].digest_len = 128
    /\ result[t].kind = "Ok"

(* ------------------------ the command line program ------------------- *)
SignCommand == args.command = "sign"
ExtractCommand == args.command = "extract"

\* command_sign is past the registration of the signing key without error.
PastKeyStage ==
  \/ cpc \in {"chain", "settings", "create", "write"}
  \/ /\ cpc = "done"
     /\ exitResult \in {"Ok", "Err(CertificateDer: chain)", "Err(Settings)",
                         "Err(Io: output_path)", "Err(Signing)"}

KeyRegistered == machoSigner.signing_key # << >>
TimestampConfigured == machoSigner.time_stamp_url # "None"

\* C12: the server URL registered on the signer is the --timestamp-url value,
\* http://timestamp.apple.com/ts01 when the option is absent; a server is
\* registered only with a signing key and a value other than "none", and
\* once the key stage is over it is registered whenever a key is and the
\* value is not "none".
C12_TimestampSentinel ==
  SignCommand =>
    /\ TimestampConfigured =>
         /\ KeyRegistered
         /\ args.timestamp_url # "none"
         /\ machoSigner.time_stamp_url =
              (IF args.timestamp_url = NotGiven
               THEN "http://timestamp.apple.com/ts01" ELSE args.timestamp_url)
    /\ PastKeyStage =>
         (TimestampConfigured <=> (KeyRegistered /\ args.timestamp_url # "none"))

C12_Witness ==
  /\ SignCommand
  /\ cpc = "done"
  /\ exitResult = "Ok"
  /\ args.timestamp_url = NotGiven
  /\ KeyRegistered
  /\ machoSigner.time_stamp_url = "http://timestamp.apple.com/ts01"

\* All sections with the given tag in the data read, in the order the
\* --pem-source arguments are given and the sections appear within them.
RECURSIVE SectionsUpTo(_, _)
SectionsUpTo(n, tag) ==
  IF n = 0 THEN << >>
  ELSE SectionsUpTo(n - 1, tag) \o SectionsOf(n, args.pem_source[n], tag)

CertificatesRead == SectionsUpTo(Len(args.pem_source), "CERTIFICATE")
KeysRead == SectionsUpTo(Len(args.pem_source), "PRIVATE KEY")

\* command_sign has read every --pem-source file and is past the key checks.
PemDataAccepted ==
  /\ pemRead = Len(args.pem_source)
  /\ cpc # "read_pem"
  /\ ~(cpc = "done" /\ exitResult = "Err(Io: pem_source)")

\* C13 as stated: with at least one --pem-source, the command gets past the
\* key checks only with exactly one PRIVATE KEY and at least one CERTIFICATE
\* in the data read; with any other counts it has failed with CliBadArgument.
C13_Original ==
  (SignCommand /\ Len(args.pem_source) >= 1 /\ PemDataAccepted) =>
    IF Len(KeysRead) = 1 /\ Len(CertificatesRead) >= 1
    THEN TRUE
    ELSE cpc = "done" /\ exitResult = "Err(CliBadArgument)"

\* seq1 is an initial part of seq2
IsPrefix(seq1, seq2) ==
  Len(seq1) <= Len(seq2) /\ seq1 = SubSeq(seq2, 1, Len(seq1))

\* The chain certificate loop has run to its end.
ChainDone ==
  \/ cpc \in {"settings", "create", "write"}
  \/ /\ cpc = "done"
     /\ exitResult \in {"Ok", "Err(Settings)", "Err(Io: output_path)", "Err(Signing)"}

\* C14: with exactly one PRIVATE KEY in the data read, the signing key is
\* registered with the first CERTIFICATE in reading order; the chain
\* certificates registered are always an initial part of the remaining
\* certificates in reading order (so each at most once, and never the paired
\* one), and all of them once the chain loop has run.
C14_FirstCertificatePaired ==
  (SignCommand /\ Len(KeysRead) = 1) =>
    /\ KeyRegistered =>
         /\ machoSigner.signing_key = << KeysRead[1], CertificatesRead[1] >>
         /\ \A k \in 1..Len(machoSigner.chain) :
              machoSigner.chain[k] # machoSigner.signing_key[2]
    /\ machoSigner.chain # << >> => KeyRegistered
    /\ Len(CertificatesRead) >= 1 =>
         IsPrefix(machoSigner.chain, Tail(CertificatesRead))
    /\ (ChainDone /\ Len(CertificatesRead) >= 1) =>
         /\ KeyRegistered
         /\ machoSigner.chain = Tail(CertificatesRead)

C14_Witness ==
  /\ SignCommand
  /\ cpc = "done"
  /\ exitResult = "Ok"
  /\ Len(args.pem_source) = 2
  /\ KeysRead = << Contents(2, 1) >>
  /\ Len(CertificatesRead) = 3
  /\ machoSigner.signing_key = << Contents(2, 1), Contents(1, 1) >>
  /\ machoSigner.chain = << Contents(1, 2), Contents(2, 2) >>

NoCodeSignature == "Err(BinaryNoCodeSignature)"

\* C15: extract on a Mach-O without LC_CODE_SIGNATURE, whatever the --data
\* format, never prints to stdout, never gets to the format's arm and never
\* succeeds: once the Mach-O is selected it fails with BinaryNoCodeSignature.
\* sign on such a Mach-O gets past reading and parsing the input and never
\* fails for want of a signature.
C15_NoSignatureOnExtractOnly ==
  /\ (ExtractCommand /\ args.input = "unsigned") =>
       /\ stdout = << >>
       /\ cpc # "print"
       /\ exitResult # "Ok"
       /\ cpc = "done" =>
            exitResult \in {"Err(CliBadArgument)", "Err(MachO)", NoCodeSignature}
       /\ (cpc = "done" /\ args.universal_index = NotGiven) =>
            exitResult \in {"Err(MachO)", NoCodeSignature}
  /\ (SignCommand /\ args.input = "unsigned") =>
       exitResult \notin {NoCodeSignature, "Err(SignatureContext)",
                           "Err(Io: input_path)", "Err(MachO)"}

C15_Witness ==
  /\ ExtractCommand
  /\ args.input = "unsigned"
  /\ args.data = "cms-pem"
  /\ cpc = "done"
  /\ exitResult = NoCodeSignature
  /\ stdout = << >>

\* C16: the final signature blob has exactly the size of the placeholder,
\* which is the identity's max_signature_size: a smaller CMS is padded with
\* zeros, a larger one is the fatal SignatureTooLarge; so the output has the
\* code_limit and the page hashes the Code Directory was built with, and the
\* signature size announced when the Code Directory was hashed is the final
\* one.
C16_SignatureFixpoint ==
  /\ orch.step \in {"code_directory", "cms", "patch", "write", "done", "failed"} =>
       orch.placeholder = orch.max_signature_size
  /\ orch.step \in {"write", "done"} =>
       /\ orch.cms <= orch.max_signature_size
       /\ orch.signature_blob.cms = orch.cms
       /\ orch.signature_blob.padding = orch.placeholder - orch.cms
       /\ BlobSize(orch.signature_blob) = orch.placeholder
  /\ orch.step = "failed" =>
       /\ orch.cms > orch.max_signature_size
       /\ orch.err = "SignatureTooLarge"
  /\ orch.step = "done" =>
       /\ orch.out.code_limit = orch.build.code_limit
       /\ orch.out.hashes = orch.build.hashes
       /\ orch.out.datasize = orch.build.datasize

C16_Witness ==
  /\ orch.step = "done"
  /\ orch.max_signature_size = MaxSignatureSize
  /\ orch.cms = MaxSignatureSize - 1
  /\ orch.signature_blob.padding = 1
  /\ Len(orch.build.hashes) >= 2
  /\ orch.out.hashes = orch.build.hashes

(* --------------------------- the retry loop --------------------------- *)
\* Number of the sign attempt the i-th event of ev belongs to.
AttemptOf(ev, i) == CountIn(SubSeq(ev, 1, i), SignDataEvents)

\* C17: in one sign invocation the PIN callback is called at most
\* MAX_ATTEMPTS - 1 times, each time directly after an AuthenticationError of
\* attempt 1 or 2; verify_pin is called only directly after a PIN was
\* obtained (so at most once per PIN); and after verify_pin, failed or not,
\* the next thing is the next attempt's sign_data, with no second prompt.
C17_PinPerFailedAttempt ==
  \A t \in Threads :
    InSign(t) =>
      LET ev == Events(t)
      IN  /\ CountIn(ev, PinEvents) <= MAX_ATTEMPTS - 1
          /\ CountIn(ev, VerifyEvents) <= CountIn(ev, PinEvents)
          /\ \A i \in 1..Len(ev) :
               /\ ev[i] \in PinEvents =>
                    /\ i > 1
                    /\ ev[i - 1] = AuthError
                    /\ AttemptOf(ev, i) \in 1..(MAX_ATTEMPTS - 1)
               /\ ev[i] \in VerifyEvents =>
                    /\ i > 1
                    /\ ev[i - 1] \in {"pin_cb:correct", "pin_cb:wrong"}
                    /\ IF i < Len(ev)
                       THEN /\ ev[i + 1] \in SignDataEvents
                            /\ AttemptOf(ev, i + 1) = AttemptOf(ev, i) + 1
                       ELSE /\ pc[t] = "sign_data"
                            /\ attempt[t] = AttemptOf(ev, i) + 1

C17_Witness ==
  \E t \in Threads :
    /\ SignDone(t)
    /\ Events(t) = << AuthError, "pin_cb:wrong", "verify_pin:Err",
                      AuthError, "pin_cb:correct", "verify_pin:Err", AuthError >>
    /\ aaoResult[t] = SmartcardAuth


\* Thread t is inside attempt_authenticated_operation: between the first
\* sign attempt of its sign() call and the return of that call.
MidSign(t) == InSign(t) /\ pc[t] \in {"sign_data", "pin_cb", "verify_pin"}

\* C18: from its first sign attempt to its return (PIN callback and retries
\* included) a sign invocation holds the device handle, no other thread is
\* inside a sign attempt, PIN prompt or verify_pin, the handle stays with the
\* invocation until the step that ends it, and no step taken meanwhile adds
\* a device or callback event to another thread's invocation.
C18_SignSerialised ==
  [][ \A t \in Threads :
        MidSign(t) =>
          /\ holder = t
          /\ \A u \in Threads \ {t} :
               /\ ~MidSign(u)
               /\ ~InExchange(u)
               /\ \/ log'[u] = log[u]
                  \/ log'[u] = << >>
                  \/ log'[u] = Append(log[u], "wait")
          /\ holder' # t => pc'[t] \in {"done", "panicked"} ]_vars

\* One signer's invocation is at verify_pin of its second attempt while an
\* invocation of the other signer, on another thread, is parked on the lock.
C18_Witness ==
  \E t, u \in Threads :
    /\ t # u
    /\ InSign(t) /\ InSign(u)
    /\ op[t].signer # op[u].signer
    /\ pc[t] = "verify_pin"
    /\ attempt[t] = 2
    /\ pc[u] = "blocked"
    /\ Events(u) = << >>


\* Thread t is inside an operation that has not returned.
Running(t) == pc[t] \notin {"idle", "done"}
\* Thread t is where a holder of the guard can be: a device call or the PIN
\* callback.
UnderGuard(t) == InExchange(t) \/ pc[t] = "pin_cb"

C20_CallbackSnapshot ==
  /\ ykPinCallback = NoCallback /\ signers = << >>
  /\ [][ /\ ykPinCallback' # ykPinCallback
              => /\ op'[OwnerThread].kind = "set_pin_callback"
                 /\ signers' = signers
         /\ Len(signers') >= Len(signers)
         /\ \A i \in 1..Len(signers) : signers'[i] = signers[i]
         /\ \A i \in (Len(signers) + 1)..Len(signers') :
              /\ i = Len(signers) + 1
              /\ signers'[i].pin_callback = ykPinCallback ]_vars
  /\ [](\A t \in Threads :
          (InSign(t) /\ CallbackOf(t) = NoCallback /\ CountIn(Events(t), {AuthError}) > 0)
          => /\ Events(t) = << AuthError >>
             /\ pinCalls[t] = 0
             /\ pc[t] = "done"
             /\ aaoResult[t] = SmartcardAuth)

\* A signer made before set_pin_callback was used after it: the YubiKey has a
\* callback, the signer has none, and its sign failed on the first
\* authentication error without a PIN prompt.
C20_Witness ==
  \E t \in Threads :
    /\ SignDone(t)
    /\ CallbackOf(t) = NoCallback
    /\ ykPinCallback # NoCallback
    /\ Events(t) = << AuthError >>
    /\ aaoResult[t] = SmartcardAuth


\* What command_sign returns when the input Mach-O or one of the signing
\* inputs is refused.
InputErrors ==
  { "Err(Io: input_path)", "Err(MachO)", "Err(SignatureContext)",
    "Err(Io: pem_source)", "Err(CliBadArgument)", "Err(Pkcs8)",
    "Err(CertificateDer: signing)", "Err(Url)", "Err(CertificateDer: chain)",
    "Err(Settings)" }

\* The input was read and parsed, every --pem-source was read, the key
\* checks passed and all certificates left were registered as chain.
InputsAccepted ==
  /\ args.input \in {"unsigned", "signed"}
  /\ Len(stdout) >= 2 /\ stdout[2] = "parsing Mach-O"
  /\ pemRead = Len(args.pem_source)
  /\ Len(private_keys) <= 1
  /\ Len(private_keys) = 1 <=> KeyRegistered
  /\ machoSigner.chain = public_certificates

\* C21: the output file is touched only by `sign`, and only once the input
\* and all signing inputs were accepted; a run that ends with the refusal of
\* any of them leaves it untouched; the only steps that change it are
\* File::create, which truncates it and is followed by the write, and
\* write_signed_binary, which ends the command.
C21_OutputAfterInputs ==
  /\ []((cpc = "done" /\ exitResult \in InputErrors) => outputFile = "untouched")
  /\ [](outputFile # "untouched" =>
          /\ SignCommand
          /\ InputsAccepted
          /\ \/ cpc = "write"
             \/ cpc = "done" /\ exitResult \in {"Ok", "Err(Signing)"})
  /\ [][ outputFile' # outputFile =>
           \/ /\ cpc = "create" /\ cpc' = "write"
              /\ outputFile = "untouched" /\ outputFile' = "truncated"
           \/ /\ cpc = "write" /\ cpc' = "done"
              /\ outputFile = "truncated" ]_vars

\* A signing key and a chain certificate were registered and then a setting
\* (code requirements, resources, entitlements or a flag) was refused: the
\* command has failed and the output file was not touched.
C21_Witness ==
  /\ SignCommand
  /\ cpc = "done"
  /\ exitResult = "Err(Settings)"
  /\ KeyRegistered
  /\ Len(machoSigner.chain) >= 1
  /\ outputFile = "untouched"

====
